---- MODULE Spec2Model ----
(***************************************************************************)
(* Model of the durable work queue (src/core/job_queue.py) and the worker  *)
(* that consumes it (src/core/worker.py).                                  *)
(*                                                                         *)
(* The jobs table is the function `jobs` from job id to row.  The column   *)
(* completed_at is write-only in the program (no statement reads it in a   *)
(* WHERE or ORDER BY clause, no caller branches on it) and is left out of  *)
(* the row.  Later sections model the event store                          *)
(* (src/core/event_buffer.py), the online learner                          *)
(* (src/inference/online_learner.py, src/daemon.py) and the mismatch       *)
(* detector (src/inference/mismatch_detector.py).                          *)
(*                                                                         *)
(* Time is the wall clock datetime.now(), counted in steps of two days:    *)
(* `clock`.  Calls made without a Tick in between read the same instant;   *)
(* one Tick is longer than the default staleness threshold of 24 hours.    *)
(*                                                                         *)
(* NULL / None is 0 for ids and timestamps (real ones start at 1) and the  *)
(* string "NULL" for error_message.                                        *)
(***************************************************************************)
EXTENDS Integers, Sequences, FiniteSets, TLC

\* ---- bounds of the model ------------------------------------------------
NumWorkers == 2
MaxJobs == 2
MaxPriority == 1
MaxClock == 2
NumProjects == 1
\* ProjectSettings of every project, scaled down from the defaults 10000 and 50
MaxTotalPoints == 2
\* Event Store, scaled down: MAX_EVENTS (1000), PRUNE_BATCH_SIZE (100),
\* the deque's maxlen (100); the inserts and the read limits tried
MaxEvents == 2
PruneBatchSize == 1
CacheMaxLen == 2
MaxInserts == 4
MaxLimit == 2
\* _maybe_prune: "Only check every 10 seconds"; buckets of 60 seconds, kept
\* for 3600 seconds
PruneInterval == 10
BucketSeconds == 60
BucketKeepSeconds == 3600
\* EventBuffer.HIGH_VALUE_THRESHOLD, VELOCITY_WINDOW_SECONDS and the
\* "within 5 seconds" of the velocity cache
HighValueThreshold == 5
VelocityWindowSeconds == 60
VelocityCacheSeconds == 5
\* get_mismatch_summary: LIMIT 100 scaled down, and its "within 5 seconds";
\* insert_event: ml_error > 1.0
SummaryLimit == 2
MismatchCacheSeconds == 5
SurpriseErrorMin == 1
\* ProjectSettings.max_total_points "Set to -1 for unlimited"
UnlimitedPoints == -1
PointsPerScanCycle == 2
\* the learner: learn calls on one model, constructions of the learner
MaxLearns == 3
MaxBoots == 2
\* OnlineBrain.ERROR_EMA_ALPHA (0.1) in tenths, SURPRISE_MULTIPLIER (2.0)
ErrorEmaAlpha == 1
SurpriseMultiplier == 2
\* MismatchDetector: slopes in percent, distances and elevations in feet,
\* utility scores in tenths (UTILITY_MISMATCH_THRESHOLD 2.5 is 25)
SlopeBuildableMax == 15
SlopeDifficultMin == 25
SlopeResidentialMin == 30
UtilityNearFt == 500
UtilityMismatchThreshold == 25
LowElevationFt == 30
LowFloodScore == 4

\* ---- program constants --------------------------------------------------
DefaultMaxAgeHours == 24
DefaultPriority == 0

None == 0
NULL == "NULL"

Workers == 1..NumWorkers
Priorities == 0..MaxPriority
Projects == 1..NumProjects
\* a project id for which Project.load finds nothing on disk
MissingProject == NumProjects + 1
Messages == {"io error"}

PENDING == "pending"
RUNNING == "running"
PAUSED == "paused"
COMPLETED == "completed"
FAILED == "failed"
CANCELLED == "cancelled"
JobStatus == {PENDING, RUNNING, PAUSED, COMPLETED, FAILED, CANCELLED}
Terminal == {COMPLETED, FAILED, CANCELLED}

VARIABLES
    jobs,       \* the jobs table: job id -> row
    clock,      \* datetime.now()
    lock,       \* JobQueue._lock of each JobQueue instance: holder or None
    qinst,      \* the JobQueue instance each caller uses
    pc,         \* where each caller / worker is in its code
    sel,        \* claim_next: the row fetched by the SELECT (job id or None)
    job,        \* the value the caller's last claim_next returned
    returned,   \* per job: claim_next calls that returned it since it last
                \* became pending (enqueue, resume, stale reclaim), capped at 2
    current_job,         \* Worker._current_job (job id or None)
    shutdown_requested,  \* Worker._shutdown_requested
    running,             \* Worker._running
    project,    \* _process_job: the Project object loaded for the job
    points,     \* _run_scan: the local points_collected
    cyc,        \* _run_scan: points done in the current cycle
    exc,        \* _process_job: str(e) of the exception being handled
    projects,   \* the project files on disk: project id -> saved record
    archive,    \* lines of each project's training_dataset.jsonl
    events,     \* Event Store: the quantum_events table, rows in id order
    last_id,    \* Event Store: the last AUTOINCREMENT id handed out
    buckets,    \* Event Store: temporal_buckets, bucket_minute -> event_count
    recent_cache,     \* EventBuffer._recent_cache, newest insert first
    elock,            \* EventBuffer._lock: holder or None
    last_prune_time,  \* EventBuffer._last_prune_time
    event,      \* insert_event: the event a thread has built
    got,        \* get_recent_events: the list a thread was returned
    acked,      \* ids of the events whose insert_event returned True
    insert_failed,        \* whether some insert_event has returned False
    velocity_cache,       \* EventBuffer._velocity_cache
    velocity_cache_time,  \* EventBuffer._velocity_cache_time
    current_time,  \* get_high_value_velocity: the caller's current_time
    velocity,      \* get_high_value_velocity: <<value returned>>, else <<>>
    mismatch_summary_cache,  \* EventBuffer._mismatch_summary_cache
    mismatch_cache_time,     \* EventBuffer._mismatch_cache_time
    summary,       \* get_mismatch_summary: <<dict returned>>, else <<>>
    river,       \* RIVER_AVAILABLE: the online-learning backend imports
    brain,       \* run_daemon: brain (the learner object, or None)
    checkpoint,  \* the file online_model.pkl
    llock,       \* OnlineBrain._lock: holder or None
    target,      \* learn: the caller's target
    prediction,  \* learn: the local prediction
    result,      \* learn / predict: the value the caller was returned
    processed,   \* DaemonState.total_quanta_processed
    boots,       \* how many times run_daemon has started
    quantum,     \* scan_quantum: what the loaders and models say of the sample
    raising,     \* the checks that raise on this sample
    detector,    \* scan_quantum: the detector the loop is at (0: no scan)
    mismatches   \* scan_quantum: mismatches

qvars == <<jobs, clock, lock, qinst, pc, sel, job, returned>>
wvars == <<current_job, shutdown_requested, running, project, points, cyc, exc>>
evars == <<events, last_id, buckets, recent_cache, elock, last_prune_time,
           event, got, acked, insert_failed, velocity_cache,
           velocity_cache_time, current_time, velocity,
           mismatch_summary_cache, mismatch_cache_time, summary>>
\* where the scanned samples go: the archive file and the Event Store
lvars == <<river, brain, checkpoint, llock, target, prediction, result,
           processed, boots>>
mvars == <<quantum, raising, detector, mismatches>>
svars == <<archive, evars, lvars, mvars>>
vars == <<jobs, clock, lock, qinst, pc, sel, job, returned, current_job,
          shutdown_requested, running, project, points, cyc, exc, projects,
          archive, events, last_id, buckets, recent_cache, elock,
          last_prune_time, event, got, acked, insert_failed, velocity_cache,
          velocity_cache_time, current_time, velocity,
          mismatch_summary_cache, mismatch_cache_time, summary, river, brain,
          checkpoint, llock, target, prediction, result, processed, boots,
          quantum, raising, detector, mismatches>>

\* ---- the jobs table -----------------------------------------------------
\* progress_message is the tuple of the text's parts: 'Paused' is <<"Paused">>,
\* f"Scanned {n}/{max} points" is <<"Scanned", n, max>>.
Job(project_id, priority, created_at) ==
    [project_id |-> project_id, status |-> PENDING, priority |-> priority,
     created_at |-> created_at, started_at |-> None, progress_percent |-> 0,
     progress_message |-> <<"Waiting to start">>, error_message |-> NULL,
     worker_id |-> None]

JobIds == DOMAIN jobs

\* INSERT INTO jobs ...; AUTOINCREMENT ids are 1, 2, 3, ...
enqueue(project_id, priority) ==
    [j \in 1..(Cardinality(JobIds) + 1) |->
        IF j \in JobIds THEN jobs[j] ELSE Job(project_id, priority, clock)]

PendingJobs == {j \in JobIds : jobs[j].status = PENDING}

PrecedesMutant(a, b) ==
    \/ jobs[a].priority < jobs[b].priority
    \/ jobs[a].priority = jobs[b].priority /\ jobs[a].created_at < jobs[b].created_at

\* ORDER BY priority DESC, created_at ASC: a precedes b
Precedes(a, b) ==
    \/ jobs[a].priority > jobs[b].priority
    \/ jobs[a].priority = jobs[b].priority /\ jobs[a].created_at < jobs[b].created_at

\* the SELECT filtering on the project status value 'queued' instead
SelectNextMutant == {j \in JobIds : jobs[j].status = "queued"}

\* SELECT ... WHERE status = 'pending' ORDER BY ... LIMIT 1: the rows the
\* query may return (SQL leaves the order of ties open); empty if none.
SelectNext == {j \in PendingJobs : \A k \in PendingJobs : ~Precedes(k, j)}

\* UPDATE jobs SET status = 'running', started_at = now, worker_id = ? WHERE id = ?
claim_update(job_id, worker_id) ==
    [jobs EXCEPT ![job_id].status = RUNNING,
                 ![job_id].started_at = clock,
                 ![job_id].progress_message = <<"Starting...">>,
                 ![job_id].worker_id = worker_id]

update_progress(job_id, percent, message) ==
    [jobs EXCEPT ![job_id].progress_percent = percent,
                 ![job_id].progress_message = message]

\* the UPDATE leaving progress_percent as it is
completeMutant(job_id) ==
    [jobs EXCEPT ![job_id].status = COMPLETED,
                 ![job_id].progress_message = <<"Completed">>]

complete(job_id) ==
    [jobs EXCEPT ![job_id].status = COMPLETED, ![job_id].progress_percent = 100,
                 ![job_id].progress_message = <<"Completed">>]

fail(job_id, error_message) ==
    [jobs EXCEPT ![job_id].status = FAILED, ![job_id].error_message = error_message,
                 ![job_id].progress_message = <<"Failed">>]

pause(job_id) ==
    [jobs EXCEPT ![job_id].status = PAUSED, ![job_id].progress_message = <<"Paused">>]

\* the UPDATE leaving worker_id as it is
resumeMutant(job_id) == [jobs EXCEPT ![job_id].status = PENDING]

resume(job_id) ==
    [jobs EXCEPT ![job_id].status = PENDING, ![job_id].worker_id = None]

cancel(job_id) ==
    [jobs EXCEPT ![job_id].status = CANCELLED,
                 ![job_id].progress_message = <<"Cancelled">>]

\* datetime.timestamp(): seconds, the clock counting steps of two days
timestamp(t) == t * 172800

\* the comparison written as started_at <= cutoff
StaleJobsMutant(max_age_hours) ==
    {j \in JobIds : /\ jobs[j].status = RUNNING
                    /\ jobs[j].started_at # None
                    /\ timestamp(jobs[j].started_at)
                         <= timestamp(clock) - max_age_hours * 3600}

\* WHERE status = 'running' AND started_at < cutoff
StaleJobs(max_age_hours) ==
    {j \in JobIds : /\ jobs[j].status = RUNNING
                    /\ jobs[j].started_at # None
                    /\ timestamp(jobs[j].started_at)
                         < timestamp(clock) - max_age_hours * 3600}

cleanup_stale_jobs(max_age_hours) ==
    [j \in JobIds |->
        IF j \in StaleJobs(max_age_hours)
        THEN [jobs[j] EXCEPT !.status = PENDING, !.worker_id = None,
                             !.progress_message = <<"Reset after timeout">>]
        ELSE jobs[j]]

\* ---- the in-process lock ------------------------------------------------
\* `with self._lock`: a caller enters when no other thread holds the RLock
\* of the JobQueue instance it uses.
LockFreeMutant(c) == TRUE

LockFree(c) == lock[qinst[c]] \in {None, c}

Acquire(c) == lock' = [lock EXCEPT ![qinst[c]] = c]
Release(c) == lock' = [lock EXCEPT ![qinst[c]] = None]

Bump(n) == IF n < 2 THEN n + 1 ELSE 2

\* ---- queue operations called by a thread c ------------------------------
Tick ==
    /\ clock < MaxClock
    /\ clock' = clock + 1
    /\ UNCHANGED <<jobs, lock, qinst, pc, sel, job, returned, wvars, projects, svars>>

\* claim_next, lines 192-207: take the lock, SELECT, return None if no row.
\* `at` is where the caller is, `empty` where it goes on a None.
ClaimSelect(c, at, empty) ==
    /\ pc[c] = at
    /\ LockFree(c)
    /\ IF SelectNext = {}
       THEN /\ job' = [job EXCEPT ![c] = None]
            /\ pc' = [pc EXCEPT ![c] = empty]
            /\ UNCHANGED <<lock, sel>>
       ELSE /\ \E row \in SelectNext : sel' = [sel EXCEPT ![c] = row]
            /\ Acquire(c)
            /\ pc' = [pc EXCEPT ![c] = "claim_update"]
            /\ UNCHANGED job
    /\ UNCHANGED <<jobs, clock, qinst, returned, wvars, projects, svars>>

\* claim_next, lines 209-234: UPDATE ... WHERE id = ?, commit, return the Job
ClaimUpdate(c, to) ==
    /\ pc[c] = "claim_update"
    /\ jobs' = claim_update(sel[c], c)
    /\ returned' = [returned EXCEPT ![sel[c]] = Bump(@)]
    /\ job' = [job EXCEPT ![c] = sel[c]]
    /\ sel' = [sel EXCEPT ![c] = None]
    /\ Release(c)
    /\ pc' = [pc EXCEPT ![c] = to]
    /\ UNCHANGED <<clock, qinst, wvars, projects, svars>>

\* a single-statement write made by an idle caller through its JobQueue
QWrite(c, table) ==
    /\ pc[c] = "idle"
    /\ LockFree(c)
    /\ jobs' = table
    /\ UNCHANGED <<clock, lock, qinst, pc, sel, job, wvars, projects, svars>>

Fresh(table) == [j \in DOMAIN table |-> IF j \in JobIds THEN returned[j] ELSE 0]

QEnqueue(c) ==
    /\ Cardinality(JobIds) < MaxJobs
    /\ \E p \in Projects, prio \in Priorities :
          /\ QWrite(c, enqueue(p, prio))
          /\ returned' = Fresh(enqueue(p, prio))

QClaimSelect(c) == ClaimSelect(c, "idle", "idle")

QClaimUpdate(c) == ClaimUpdate(c, "idle")

QPause(c) == \E j \in JobIds : QWrite(c, pause(j)) /\ UNCHANGED returned

QResume(c) ==
    \E j \in JobIds :
        /\ QWrite(c, resume(j))
        /\ returned' = [returned EXCEPT ![j] = 0]

Reclaimed(max_age_hours) ==
    [j \in JobIds |-> IF j \in StaleJobs(max_age_hours) THEN 0 ELSE returned[j]]

QCleanupWith(c, max_age_hours) ==
    /\ QWrite(c, cleanup_stale_jobs(max_age_hours))
    /\ returned' = Reclaimed(max_age_hours)

QCleanup(c) == \E h \in {0, DefaultMaxAgeHours} : QCleanupWith(c, h)

Project(status, points_collected, error_message) ==
    [status |-> status, points_collected |-> points_collected,
     error_message |-> error_message, max_total_points |-> MaxTotalPoints]

\* a project.json cut short: Project.save opens it with "w" (truncating it)
\* and the process died before json.dump was flushed; json.load raises on it
Torn == Project("torn", 0, NULL)

JsonError == "invalid json"

NoProject == Project("none", 0, NULL)

\* EventBuffer.__init__, lines 64-87, on a new database
\* the kinds get_mismatch_summary counts, line 435
SummaryKinds == {"slope", "zoning", "flood", "utility", "surprise"}

\* _mismatch_summary_cache before the first query: line 83 makes it {}, which
\* no caller can be returned, the time of the cache being 0; kept here as
\* the summary without counts
NoSummary == [k \in SummaryKinds |-> 0]

EInit ==
    /\ events = <<>>
    /\ last_id = 0
    /\ buckets = <<>>
    /\ recent_cache = <<>>
    /\ elock = None
    /\ last_prune_time = 0
    /\ event = [c \in Workers |-> None]
    /\ got = [c \in Workers |-> <<>>]
    /\ acked = {}
    /\ insert_failed = FALSE
    /\ velocity_cache = 0
    /\ velocity_cache_time = 0
    /\ current_time = [c \in Workers |-> None]
    /\ velocity = [c \in Workers |-> <<>>]
    /\ mismatch_summary_cache = NoSummary
    /\ mismatch_cache_time = 0
    /\ summary = [c \in Workers |-> <<>>]

\* no learner object yet, no checkpoint file
NoBrain == [kind |-> "unbuilt"]
Missing == [kind |-> "missing"]

LInit ==
    /\ brain = NoBrain
    /\ checkpoint = Missing
    /\ llock = None
    /\ target = [c \in Workers |-> None]
    /\ prediction = [c \in Workers |-> None]
    /\ result = [c \in Workers |-> <<>>]
    /\ processed = 0
    /\ boots = 0

\* no sample is being scanned
MInit ==
    /\ quantum = None
    /\ raising = {}
    /\ detector = 0
    /\ mismatches = <<>>

QInitRows ==
    /\ EInit
    /\ LInit
    /\ MInit
    /\ archive = [p \in Projects |-> 0]
    /\ jobs = <<>>
    /\ clock = 1
    /\ sel = [c \in Workers |-> None]
    /\ job = [c \in Workers |-> None]
    /\ returned = <<>>
    /\ current_job = [c \in Workers |-> None]
    /\ shutdown_requested = [c \in Workers |-> FALSE]
    /\ running = [c \in Workers |-> FALSE]
    /\ project = [c \in Workers |-> NoProject]
    /\ points = [c \in Workers |-> 0]
    /\ cyc = [c \in Workers |-> 0]
    /\ exc = [c \in Workers |-> NULL]

QInitTable ==
    /\ QInitRows
    /\ river = TRUE

QInit ==
    /\ QInitTable
    /\ projects = [p \in Projects |-> Project("created", 0, NULL)]

\* N threads that share one JobQueue instance
InitShared ==
    /\ QInit
    /\ pc = [c \in Workers |-> "idle"]
    /\ qinst = [c \in Workers |-> 1]
    /\ lock = [i \in {1} |-> None]

\* every caller constructs its own JobQueue on the same database
InitSeparate ==
    /\ QInit
    /\ pc = [c \in Workers |-> "idle"]
    /\ qinst = [c \in Workers |-> c]
    /\ lock = [i \in Workers |-> None]

NextQ ==
    \/ Tick
    \/ \E c \in Workers : QEnqueue(c)
    \/ \E c \in Workers : QClaimSelect(c)
    \/ \E c \in Workers : QClaimUpdate(c)
    \/ \E c \in Workers : QPause(c)
    \/ \E c \in Workers : QResume(c)
    \/ \E c \in Workers : QCleanup(c)

SpecShared == InitShared /\ [][NextQ]_vars
SpecSeparate == InitSeparate /\ [][NextQ]_vars

\* ---- the worker (src/core/worker.py) -------------------------------------
\* int((points_collected / max_points) * 100)
\* _save_point, lines 300-303: one line appended to the project's
\* training_dataset.jsonl; the count is kept up to MaxLines
MaxLines == MaxTotalPoints + 1

save_point(project_id) ==
    [archive EXCEPT ![project_id] = IF @ < MaxLines THEN @ + 1 ELSE @]

\* the division left out
ProgressPercentMutant(n, max_points) == n * 100

ProgressPercent(n, max_points) == (n * 100) \div max_points

ProjectOf(w) == jobs[job[w]].project_id

WStep(w, at, to) ==
    /\ pc[w] = at
    /\ pc' = [pc EXCEPT ![w] = to]
    /\ UNCHANGED <<clock, lock, qinst, sel, job, running, returned>>

\* an exception leaves the try block for the handler at line 127
Raise(w, at, m) ==
    /\ WStep(w, at, "except")
    /\ exc' = [exc EXCEPT ![w] = m]

\* run, lines 75-79
Run(w) ==
    /\ pc[w] = "init"
    /\ pc' = [pc EXCEPT ![w] = "loop"]
    /\ running' = [running EXCEPT ![w] = TRUE]
    /\ jobs' = cleanup_stale_jobs(DefaultMaxAgeHours)
    /\ returned' = Reclaimed(DefaultMaxAgeHours)
    /\ UNCHANGED <<clock, lock, qinst, sel, job, current_job, shutdown_requested,
                   project, points, cyc, exc, projects, svars>>

\* run, line 81: while self._running and not self._shutdown_requested
Loop(w) ==
    /\ WStep(w, "loop", IF running[w] /\ ~shutdown_requested[w]
                        THEN "claim" ELSE "stopped")
    /\ UNCHANGED <<jobs, current_job, shutdown_requested, project, points, cyc,
                   exc, projects, svars>>

\* run, line 83 (and 89-91 on None: sleep, next iteration)
WClaimSelect(w) == ClaimSelect(w, "claim", "loop")

WClaimUpdate(w) == ClaimUpdate(w, "assign")

\* run, lines 85-86: self._current_job = job
Assign(w) ==
    /\ WStep(w, "assign", "load")
    /\ current_job' = [current_job EXCEPT ![w] = job[w]]
    /\ UNCHANGED <<jobs, shutdown_requested, project, points, cyc, exc, projects, svars>>

\* _process_job, lines 104-113, and _run_scan, lines 145-152
LoadProject(w) ==
    /\ pc[w] = "load"
    /\ IF ProjectOf(w) \notin DOMAIN projects
       THEN /\ WStep(w, "load", "clear")
            /\ jobs' = fail(job[w], "project not found")
            /\ UNCHANGED <<current_job, shutdown_requested, project, points, cyc,
                           exc, projects, svars>>
       ELSE IF projects[ProjectOf(w)] = Torn
       THEN /\ Raise(w, "load", JsonError)
            /\ UNCHANGED <<jobs, current_job, shutdown_requested, project, points,
                           cyc, projects, svars>>
       ELSE /\ project' = [project EXCEPT
                              ![w] = [projects[ProjectOf(w)] EXCEPT
                                         !.status = "scanning"]]
            /\ \/ /\ WStep(w, "load", "scan")
                  /\ projects' = [projects EXCEPT ![ProjectOf(w)] = project'[w]]
                  /\ points' = [points EXCEPT ![w] = project'[w].points_collected]
                  /\ UNCHANGED <<exc, svars>>
               \/ /\ \E m \in Messages : Raise(w, "load", m)
                  /\ UNCHANGED <<points, projects, svars>>
            /\ UNCHANGED <<jobs, current_job, shutdown_requested, cyc>>

\* _run_scan, lines 159-166
ScanLoop(w) ==
    /\ pc[w] = "scan"
    /\ IF points[w] < project[w].max_total_points /\ ~shutdown_requested[w]
       THEN /\ WStep(w, "scan", "cycle")
            /\ jobs' = update_progress(
                          job[w],
                          ProgressPercent(points[w], project[w].max_total_points),
                          <<"Scanned", points[w], project[w].max_total_points>>)
            /\ cyc' = [cyc EXCEPT ![w] = 0]
       ELSE /\ WStep(w, "scan", "after_scan")
            /\ UNCHANGED <<jobs, cyc>>
    /\ UNCHANGED <<current_job, shutdown_requested, project, points, exc, projects, svars>>

\* _run_scan, lines 169-186: one iteration of the for loop
ScanPoint(w) ==
    /\ pc[w] = "cycle"
    /\ IF cyc[w] >= PointsPerScanCycle \/ shutdown_requested[w]
       THEN /\ WStep(w, "cycle", "cycle_end")
            /\ UNCHANGED <<points, cyc, exc, archive>>
       ELSE \/ /\ WStep(w, "cycle", IF points[w] + 1 >= project[w].max_total_points
                                    THEN "cycle_end" ELSE "cycle")
               /\ archive' = save_point(ProjectOf(w))
               /\ points' = [points EXCEPT ![w] = @ + 1]
               /\ cyc' = [cyc EXCEPT ![w] = @ + 1]
               /\ UNCHANGED exc
            \/ /\ \E m \in Messages : Raise(w, "cycle", m)
               /\ UNCHANGED <<points, cyc, archive>>
    /\ UNCHANGED <<jobs, current_job, shutdown_requested, project, projects, evars, lvars, mvars>>

\* _run_scan, lines 188-194
CycleEnd(w) ==
    /\ pc[w] = "cycle_end"
    /\ project' = [project EXCEPT ![w].points_collected = points[w]]
    /\ \/ /\ WStep(w, "cycle_end", "scan")
          /\ projects' = [projects EXCEPT ![ProjectOf(w)] = project'[w]]
          /\ UNCHANGED exc
       \/ /\ \E m \in Messages : Raise(w, "cycle_end", m)
          /\ UNCHANGED projects
    /\ UNCHANGED <<jobs, current_job, shutdown_requested, points, cyc, svars>>

\* _process_job, lines 118-120
AfterScan(w) ==
    /\ WStep(w, "after_scan", IF shutdown_requested[w] THEN "clear" ELSE "complete")
    /\ UNCHANGED <<jobs, current_job, shutdown_requested, project, points, cyc,
                   exc, projects, svars>>

\* _process_job, line 123
Complete(w) ==
    /\ pc[w] = "complete"
    /\ WStep(w, "complete", "save_completed")
    /\ jobs' = complete(job[w])
    /\ UNCHANGED <<current_job, shutdown_requested, project, points, cyc, exc,
                   projects, svars>>

\* _process_job, lines 124-125
SaveCompleted(w) ==
    /\ pc[w] = "save_completed"
    /\ project' = [project EXCEPT ![w].status = "completed"]
    /\ \/ /\ WStep(w, "save_completed", "clear")
          /\ projects' = [projects EXCEPT ![ProjectOf(w)] = project'[w]]
          /\ UNCHANGED exc
       \/ /\ \E m \in Messages : Raise(w, "save_completed", m)
          /\ UNCHANGED projects
    /\ UNCHANGED <<jobs, current_job, shutdown_requested, points, cyc, svars>>

\* _process_job, lines 127-129
Except(w) ==
    /\ pc[w] = "except"
    /\ WStep(w, "except", "except_project")
    /\ jobs' = fail(job[w], exc[w])
    /\ UNCHANGED <<current_job, shutdown_requested, project, points, cyc, exc,
                   projects, svars>>

\* _process_job, lines 131-136
ExceptProject(w) ==
    /\ pc[w] = "except_project"
    /\ IF projects[ProjectOf(w)] = Torn
       THEN \* get_project raises inside the handler: nothing catches it,
            \* run and the process end with the traceback
            /\ WStep(w, "except_project", "crashed")
            /\ UNCHANGED <<project, projects>>
       ELSE /\ WStep(w, "except_project", "clear")
            /\ project' = [project EXCEPT
                              ![w] = [projects[ProjectOf(w)] EXCEPT
                                         !.status = "error",
                                         !.error_message = exc[w]]]
            /\ projects' = [projects EXCEPT ![ProjectOf(w)] = project'[w]]
    /\ UNCHANGED <<jobs, current_job, shutdown_requested, points, cyc, exc, svars>>

\* run, line 88: self._current_job = None (the locals of _process_job are gone)
Clear(w) ==
    /\ WStep(w, "clear", "loop")
    /\ current_job' = [current_job EXCEPT ![w] = None]
    /\ project' = [project EXCEPT ![w] = NoProject]
    /\ points' = [points EXCEPT ![w] = 0]
    /\ cyc' = [cyc EXCEPT ![w] = 0]
    /\ exc' = [exc EXCEPT ![w] = NULL]
    /\ UNCHANGED <<jobs, shutdown_requested, projects, svars>>

\* _handle_shutdown, lines 61-69: SIGINT / SIGTERM, between any two steps
HandleShutdown(w) ==
    /\ pc[w] # "stopped"
    /\ shutdown_requested' = [shutdown_requested EXCEPT ![w] = TRUE]
    /\ jobs' = IF current_job[w] # None THEN pause(current_job[w]) ELSE jobs
    /\ UNCHANGED <<clock, lock, qinst, pc, sel, job, returned, current_job,
                   running, project, points, cyc, exc, projects, svars>>

\* stop, lines 306-308
Stop(w) ==
    /\ pc[w] # "stopped"
    /\ ~shutdown_requested[w]
    /\ shutdown_requested' = [shutdown_requested EXCEPT ![w] = TRUE]
    /\ UNCHANGED <<jobs, clock, lock, qinst, pc, sel, job, returned, current_job,
                   running, project, points, cyc, exc, projects, svars>>

\* ---- callers of the queue outside the workers (dashboard, operator) ------
EnvWrite(table) ==
    /\ jobs' = table
    /\ UNCHANGED <<clock, lock, qinst, pc, sel, job, wvars, projects, svars>>

\* app.py, line 131: queue.enqueue(project.id), priority left at its default
EnvEnqueue ==
    /\ Cardinality(JobIds) < MaxJobs
    /\ \E p \in Projects \cup {MissingProject} :
          /\ EnvWrite(enqueue(p, DefaultPriority))
          /\ returned' = Fresh(enqueue(p, DefaultPriority))

\* app.py, lines 287-290: the Pause button of a job shown as running
EnvPause ==
    \E j \in JobIds :
        /\ jobs[j].status = RUNNING
        /\ EnvWrite(pause(j))
        /\ UNCHANGED returned

\* app.py, lines 271, 292-293: the Cancel button of every active job
\* (get_active_jobs: pending or running)
EnvCancel ==
    \E j \in JobIds :
        /\ jobs[j].status \in {PENDING, RUNNING}
        /\ EnvWrite(cancel(j))
        /\ UNCHANGED returned

\* resume has no caller in the repository: an operator resuming a paused job
EnvResume ==
    \E j \in JobIds :
        /\ jobs[j].status = PAUSED
        /\ EnvWrite(resume(j))
        /\ returned' = [returned EXCEPT ![j] = 0]

\* Worker.__init__ for every worker: its own JobQueue, nothing claimed
InitWorkers ==
    /\ pc = [w \in Workers |-> "init"]
    /\ qinst = [w \in Workers |-> w]
    /\ lock = [i \in Workers |-> None]

Init == QInit /\ InitWorkers

WorkerStep(w) ==
    \/ Run(w)
    \/ Loop(w)
    \/ WClaimSelect(w)
    \/ WClaimUpdate(w)
    \/ Assign(w)
    \/ LoadProject(w)
    \/ ScanLoop(w)
    \/ ScanPoint(w)
    \/ CycleEnd(w)
    \/ AfterScan(w)
    \/ Complete(w)
    \/ SaveCompleted(w)
    \/ Except(w)
    \/ ExceptProject(w)
    \/ Clear(w)

\* worker.py main(): a process runs one Worker
MainWorker == CHOOSE w \in Workers : \A v \in Workers : w <= v

\* one worker process and the dashboard on one database
Next ==
    \/ Tick
    \/ EnvEnqueue
    \/ EnvPause
    \/ EnvCancel
    \/ EnvResume
    \/ WorkerStep(MainWorker)
    \/ HandleShutdown(MainWorker)
    \/ Stop(MainWorker)

Spec == Init /\ [][Next]_vars

\* several worker processes on one database
NextWorkers ==
    \/ Tick
    \/ EnvEnqueue
    \/ \E w \in Workers : WorkerStep(w)

SpecWorkers == Init /\ [][NextWorkers]_vars

\* the moments "after claim_next has returned a job and before the scan of
\* that job is over": run line 83 returned, _run_scan not yet left
InWindow(w) == pc[w] \in {"assign", "load", "scan", "cycle", "cycle_end"}

\* one worker process that receives SIGINT / SIGTERM while it holds a job
SignalInWindow(w) == InWindow(w) /\ HandleShutdown(w)

NextSignal ==
    \/ Tick
    \/ EnvEnqueue
    \/ WorkerStep(MainWorker)
    \/ SignalInWindow(MainWorker)

SpecSignal == Init /\ [][NextSignal]_vars

\* one worker process, no signal and no operator
NextScan ==
    \/ Tick
    \/ EnvEnqueue
    \/ WorkerStep(MainWorker)

SpecScan == Init /\ [][NextScan]_vars

\* JobQueue.resume called on any job: the UPDATE has no status condition
ApiResume ==
    \E j \in JobIds :
        /\ EnvWrite(resume(j))
        /\ returned' = [returned EXCEPT ![j] = 0]

\* one worker process that is never shut down and keeps executing, with
\* callers that enqueue, cancel and resume jobs
NextLive ==
    \/ EnvEnqueue
    \/ EnvCancel
    \/ ApiResume
    \/ WorkerStep(MainWorker)

SpecLive == Init /\ [][NextLive]_vars /\ WF_vars(WorkerStep(MainWorker))

\* app.py, lines 130-135 (and pages/1_Dashboard.py, lines 88-93): the Start
\* Scan button, shown for a project that is neither scanning nor queued;
\* enqueue, then the project is saved as queued
StartScanButton ==
    /\ Cardinality(JobIds) < MaxJobs
    /\ \E p \in Projects :
          /\ projects[p].status \notin {"scanning", "queued", Torn.status}
          /\ jobs' = enqueue(p, DefaultPriority)
          /\ returned' = Fresh(enqueue(p, DefaultPriority))
          /\ projects' = [projects EXCEPT ![p].status = "queued"]
    /\ UNCHANGED <<clock, lock, qinst, pc, sel, job, wvars, svars>>

\* app.py, lines 264-296: the Cancel button of an active job (pending or
\* running); the job is cancelled and its project saved as created
CancelButton ==
    /\ \E j \in JobIds :
          /\ jobs[j].status \in {PENDING, RUNNING}
          /\ jobs' = cancel(j)
          /\ projects' =
                IF /\ jobs[j].project_id \in DOMAIN projects
                   /\ projects[jobs[j].project_id] # Torn
                THEN [projects EXCEPT ![jobs[j].project_id].status = "created"]
                ELSE projects
    /\ UNCHANGED <<clock, lock, qinst, pc, sel, job, returned, wvars, svars>>

\* the worker processes and the dashboard's buttons on one database
NextButtons ==
    \/ StartScanButton
    \/ CancelButton
    \/ EnvPause
    \/ \E w \in Workers : WorkerStep(w)

SpecButtons == Init /\ [][NextButtons]_vars

\* ---- claims about the queue ---------------------------------------------

\* C1: with N threads sharing one JobQueue instance, no job is returned by
\* two claim_next calls unless a resume or a stale reclaim of that job came
\* in between.
C1_NoDoubleClaim == \A j \in JobIds : returned[j] <= 1

\* two threads each got a job from claim_next, and they are different jobs
C1_Witness ==
    \E c1, c2 \in Workers :
        /\ c1 # c2
        /\ job[c1] # None /\ job[c2] # None /\ job[c1] # job[c2]
        /\ returned[job[c1]] = 1 /\ returned[job[c2]] = 1
        /\ jobs[job[c1]].worker_id = c1 /\ jobs[job[c2]].worker_id = c2

\* C2: two workers with separate JobQueue instances (no shared lock) are
\* never both returned the same pending job.
C2_SeparateInstancesNoDoubleClaim ==
    \A c1, c2 \in Workers :
        (c1 # c2 /\ job[c1] # None /\ job[c1] = job[c2])
            => returned[job[c1]] <= 1

\* s is a pending job of greatest priority and, among those, earliest created_at
IsBest(s) ==
    /\ s \in JobIds
    /\ jobs[s].status = PENDING
    /\ \A k \in JobIds :
          jobs[k].status = PENDING =>
              /\ jobs[k].priority <= jobs[s].priority
              /\ jobs[k].priority = jobs[s].priority
                    => jobs[s].created_at <= jobs[k].created_at

\* C4: claim_next returns the pending job of greatest priority and, among
\* those, earliest created_at, marks it running with started_at and the
\* caller's worker_id, and returns None exactly when no job is pending.
C4_ClaimNextSelectsBest ==
    [][\A c \in Workers :
        /\ QClaimSelect(c) =>
              IF \E k \in JobIds : jobs[k].status = PENDING
              THEN pc'[c] = "claim_update" /\ IsBest(sel'[c])
              ELSE pc'[c] = "idle" /\ job'[c] = None
        /\ QClaimUpdate(c) =>
              /\ IsBest(sel[c])
              /\ job'[c] = sel[c]
              /\ jobs'[sel[c]].status = RUNNING
              /\ jobs'[sel[c]].started_at = clock
              /\ jobs'[sel[c]].worker_id = c
              /\ \A k \in JobIds \ {sel[c]} : jobs'[k] = jobs[k]]_vars

\* a younger job of higher priority was claimed ahead of an older pending one
C4_Witness ==
    \E c \in Workers, k \in JobIds :
        /\ job[c] # None
        /\ jobs[job[c]].status = RUNNING /\ jobs[job[c]].worker_id = c
        /\ jobs[k].status = PENDING /\ returned[k] = 0
        /\ jobs[k].priority < jobs[job[c]].priority
        /\ jobs[k].created_at < jobs[job[c]].created_at

\* ---- claims about the worker --------------------------------------------
Scanning(w) == pc[w] \in {"scan", "cycle", "cycle_end"}

\* C3: no job is being scanned by two workers at the same time.
C3_AtMostOneWorkerHolds ==
    \A w1, w2 \in Workers :
        (w1 # w2 /\ Scanning(w1) /\ Scanning(w2)) => job[w1] # job[w2]

AllowedEdges ==
    {<<PENDING, RUNNING>>, <<RUNNING, COMPLETED>>, <<RUNNING, FAILED>>,
     <<RUNNING, CANCELLED>>, <<RUNNING, PAUSED>>, <<PAUSED, PENDING>>,
     <<RUNNING, PENDING>>}

\* C5: every change of a job's status follows one of the edges
\* pending->running, running->{completed, failed, cancelled, paused},
\* paused->pending, running->pending.
C5_OnlyAllowedEdges ==
    [][\A j \in JobIds :
          jobs'[j].status # jobs[j].status
              => <<jobs[j].status, jobs'[j].status>> \in AllowedEdges]_vars

\* the step is a call of complete, fail or cancel on job j
TerminalCall(j) ==
    \/ jobs' = complete(j)
    \/ jobs' = cancel(j)
    \/ \E m \in Messages \cup {"project not found"} : jobs' = fail(j, m)

\* C6: complete, fail and cancel invoked on a job that is already completed,
\* failed or cancelled leave its status and its error_message unchanged.
C6_TerminalCallsIdempotent ==
    [][\A j \in JobIds :
          (jobs[j].status \in Terminal /\ TerminalCall(j))
              => /\ jobs'[j].status = jobs[j].status
                 /\ jobs'[j].error_message = jobs[j].error_message]_vars

\* C7: when a shutdown signal arrived after claim_next returned a job and
\* before the worker finished it, the job is paused once the worker has exited.
\* (Under SpecSignal the flag is only ever set by such a signal.)
C7_SignalLeavesJobPaused ==
    \A w \in Workers :
        (pc[w] = "stopped" /\ shutdown_requested[w] /\ job[w] # None)
            => jobs[job[w]].status = PAUSED

\* C8: once _process_job or run has returned, no job with that worker's
\* worker_id is still running.
C8_NeverStuckRunning ==
    \A w \in Workers :
        pc[w] \in {"clear", "stopped"} =>
            \A j \in JobIds : ~(jobs[j].status = RUNNING /\ jobs[j].worker_id = w)

\* C9: when _process_job returns after an exception or after the project was
\* not found, the job is failed with a non-empty error_message and complete
\* was not called for it (complete alone writes progress 100); after an
\* exception the project is marked error with the same message.
C9_FailureMarksJobFailed ==
    \A w \in Workers :
        pc[w] = "clear" =>
            /\ ProjectOf(w) \notin DOMAIN projects =>
                  /\ jobs[job[w]].status = FAILED
                  /\ jobs[job[w]].error_message \notin {NULL, ""}
                  /\ jobs[job[w]].progress_percent # 100
            /\ exc[w] # NULL =>
                  /\ jobs[job[w]].status = FAILED
                  /\ jobs[job[w]].error_message = exc[w]
                  /\ exc[w] # ""
                  /\ jobs[job[w]].progress_percent # 100
                  /\ projects[ProjectOf(w)].status = "error"
                  /\ projects[ProjectOf(w)].error_message = exc[w]

\* a project whose settings leave the budget at its default or set it to -1
InitSettings ==
    /\ QInitTable
    /\ InitWorkers
    /\ \E m \in {MaxTotalPoints, UnlimitedPoints} :
          projects = [p \in Projects |->
                        [Project("created", 0, NULL) EXCEPT !.max_total_points = m]]

SpecSettings == InitSettings /\ [][NextScan]_vars

\* a budget that takes more than two scan cycles to fill
LargeBudget == 2 * PointsPerScanCycle + 1

\* app.py, lines 236-247: projects created with a positive point budget,
\* nothing collected yet
InitBudget ==
    /\ QInitTable
    /\ InitWorkers
    /\ \E m \in 1..LargeBudget :
          projects = [p \in Projects |->
                        [Project("created", 0, NULL) EXCEPT !.max_total_points = m]]

\* one worker process with the operator and the signals
SpecBudget == InitBudget /\ [][Next]_vars

\* ---- crash and restart of the worker process -----------------------------
\* the job is between claim_next returning it and _process_job returning
Holding(w) ==
    pc[w] \in {"assign", "load", "scan", "cycle", "cycle_end", "after_scan",
               "complete", "save_completed", "except", "except_project"}

\* the worker process dies while it holds a job: the database and the
\* project files stay as written, everything in memory is gone
Crash(w) ==
    /\ Holding(w)
    /\ pc' = [pc EXCEPT ![w] = "crashed"]
    /\ UNCHANGED <<jobs, clock, lock, qinst, sel, job, returned, wvars, projects, svars>>

\* the worker process dies inside Project.save (project.py:344-350), after
\* open(..., "w") has truncated project.json and before the text is flushed
Saving(w) == pc[w] \in {"load", "cycle_end", "save_completed"}

CrashInSave(w) ==
    /\ Saving(w)
    /\ ProjectOf(w) \in DOMAIN projects
    /\ projects[ProjectOf(w)] # Torn
    /\ pc' = [pc EXCEPT ![w] = "crashed"]
    /\ projects' = [projects EXCEPT ![ProjectOf(w)] = Torn]
    /\ UNCHANGED <<jobs, clock, lock, qinst, sel, job, returned, wvars, svars>>

\* main, lines 311-327: a new process builds a Worker (__init__, lines 47-53)
\* and calls run
Restart(w) ==
    /\ pc[w] = "crashed"
    /\ pc' = [pc EXCEPT ![w] = "init"]
    /\ lock' = [lock EXCEPT ![qinst[w]] = None]
    /\ sel' = [sel EXCEPT ![w] = None]
    /\ job' = [job EXCEPT ![w] = None]
    /\ running' = [running EXCEPT ![w] = FALSE]
    /\ current_job' = [current_job EXCEPT ![w] = None]
    /\ shutdown_requested' = [shutdown_requested EXCEPT ![w] = FALSE]
    /\ project' = [project EXCEPT ![w] = NoProject]
    /\ points' = [points EXCEPT ![w] = 0]
    /\ cyc' = [cyc EXCEPT ![w] = 0]
    /\ exc' = [exc EXCEPT ![w] = NULL]
    /\ UNCHANGED <<jobs, clock, qinst, returned, projects, svars>>

\* one worker process that may crash while it holds a job and is started again
NextCrash ==
    \/ Tick
    \/ EnvEnqueue
    \/ WorkerStep(MainWorker)
    \/ Crash(MainWorker)
    \/ CrashInSave(MainWorker)
    \/ Restart(MainWorker)

SpecCrash ==
    /\ Init /\ [][NextCrash]_vars
    /\ WF_vars(WorkerStep(MainWorker))
    /\ WF_vars(Restart(MainWorker))

\* ---- the Event Store (EventBuffer) -----------------------------------------
\* time.time(), read off the same clock
time == timestamp(clock)

\* the samples inserted, as the arguments of insert_event: one scoring below
\* HIGH_VALUE_THRESHOLD, predicted exactly and without mismatches, one scoring
\* at the threshold, mispredicted by 2.0 and with a slope mismatch;
\* is_surprise is quantum_data.get('is_surprise', False)
Samples ==
    {[score |-> HighValueThreshold - 1, ml_error |-> 0, is_surprise |-> FALSE,
      mismatches |-> <<>>],
     [score |-> HighValueThreshold, ml_error |-> 2, is_surprise |-> FALSE,
      mismatches |-> <<"slope">>]}

\* insert_event, lines 201-230: the QuantumEvent built from the arguments.
\* mismatch_types, the names joined by ',', is the tuple of the names: ''
\* is <<>> and split(',') gives the names back
Row(id, ts, s) ==
    [id |-> id, timestamp |-> ts, utility_score |-> s.score,
     is_surprise |-> (s.is_surprise \/ s.ml_error > SurpriseErrorMin),
     mismatch_types |-> s.mismatches]

RowIds(table) == {table[i].id : i \in DOMAIN table}

\* INSERT OR IGNORE on a table keyed by the timestamp
insert_rowMutant(e) ==
    IF \E i \in DOMAIN events : events[i].timestamp = e.timestamp
    THEN events
    ELSE Append(events, [e EXCEPT !.id = last_id + 1])

\* insert_event, lines 236-247: INSERT INTO quantum_events
insert_row(e) == Append(events, [e EXCEPT !.id = last_id + 1])

\* insert_event, lines 250-266: the upsert of the event's one-minute bucket
bucket_minute(ts) == ts \div BucketSeconds

upsert_bucket(b) ==
    [m \in DOMAIN buckets \cup {b} |->
        IF m = b THEN (IF b \in DOMAIN buckets THEN buckets[b] + 1 ELSE 1)
                 ELSE buckets[m]]

\* deque(maxlen = CacheMaxLen).appendleft
appendleft(cache, x) ==
    LET all == <<x>> \o cache
    IN  SubSeq(all, 1, IF Len(all) > CacheMaxLen THEN CacheMaxLen ELSE Len(all))

\* the k rows a query ORDER BY timestamp takes first: `newest` for DESC,
\* otherwise ASC; which of several rows with equal timestamps is open
Firsts(table, k, newest) ==
    {D \in SUBSET RowIds(table) :
        /\ Cardinality(D) = (IF k < Len(table) THEN k ELSE Len(table))
        /\ \A i, j \in DOMAIN table :
              (table[i].id \in D /\ table[j].id \notin D) =>
                  IF newest THEN table[i].timestamp >= table[j].timestamp
                            ELSE table[i].timestamp <= table[j].timestamp}

Without(table, D) == SelectSeq(table, LAMBDA r : r.id \notin D)

\* _maybe_prune, lines 295-330, on the table as the INSERT left it: the
\* possible tables afterwards
\* the throttle left out
PruneDueMutant == TRUE

\* lines 297-301: current_time - self._last_prune_time < 10 returns
PruneDue == time - last_prune_time >= PruneInterval

\* ORDER BY timestamp DESC in the DELETE's subquery
maybe_pruneMutant(table) ==
    IF PruneDue /\ Len(table) > MaxEvents + PruneBatchSize
    THEN {Without(table, D) : D \in Firsts(table, Len(table) - MaxEvents, TRUE)}
    ELSE {table}

maybe_prune(table) ==
    IF PruneDue /\ Len(table) > MaxEvents + PruneBatchSize
    THEN {Without(table, D) : D \in Firsts(table, Len(table) - MaxEvents, FALSE)}
    ELSE {table}

prune_buckets(bs) ==
    IF PruneDue /\ Len(events) > MaxEvents + PruneBatchSize
    THEN [m \in {b \in DOMAIN bs :
                    b >= (time - BucketKeepSeconds) \div BucketSeconds} |-> bs[m]]
    ELSE bs

\* the rows ordered by timestamp DESC, rows with equal timestamps by id DESC
RECURSIVE Newest(_)
Newest(table) ==
    IF table = <<>> THEN <<>>
    ELSE LET top == CHOOSE i \in DOMAIN table : \A j \in DOMAIN table :
                        \/ table[i].timestamp > table[j].timestamp
                        \/ /\ table[i].timestamp = table[j].timestamp
                           /\ table[i].id >= table[j].id
         IN  <<table[top]>> \o Newest(Without(table, {table[top].id}))

\* get_recent_events, lines 343-370: the lists the call may return
get_recent_events(limit) ==
    IF limit <= Len(recent_cache)
    THEN {SubSeq(recent_cache, 1, limit)}
    ELSE {Newest(Without(events, RowIds(events) \ D)) :
             D \in Firsts(events, limit, TRUE)}

ELockFree(t) == elock \in {None, t}

vvars == <<velocity_cache, velocity_cache_time, current_time, velocity>>
hvars == <<mismatch_summary_cache, mismatch_cache_time, summary>>

\* the invalidation left out
invalidateMutant(cache_time) == cache_time

\* insert_event, line 282: self._velocity_cache_time = 0
invalidate(cache_time) == 0

EStep(t, at, to) ==
    /\ pc[t] = at
    /\ pc' = [pc EXCEPT ![t] = to]
    /\ UNCHANGED <<jobs, clock, lock, qinst, sel, job, returned, wvars, projects,
                   archive, lvars, mvars>>

\* insert_event, lines 201-230: the event is built, timestamp = time.time(),
\* before the lock is taken
InsertBuild(t) ==
    /\ EStep(t, "idle", "insert")
    /\ last_id + Cardinality({u \in Workers : pc[u] = "insert"}) < MaxInserts
    /\ \E s \in Samples : event' = [event EXCEPT ![t] = Row(None, time, s)]
    /\ UNCHANGED <<events, last_id, buckets, recent_cache, elock,
                   last_prune_time, got, acked, insert_failed, vvars, hvars>>

\* insert_event, lines 232-267: with self._lock, the INSERT and the bucket
\* upsert in one transaction, committed
InsertCommit(t) ==
    /\ EStep(t, "insert", "insert_cache")
    /\ ELockFree(t)
    /\ elock' = t
    /\ events' = insert_row(event[t])
    /\ last_id' = last_id + 1
    /\ event' = [event EXCEPT ![t].id = last_id + 1]
    /\ buckets' = upsert_bucket(bucket_minute(event[t].timestamp))
    /\ UNCHANGED <<recent_cache, last_prune_time, got, acked, insert_failed,
                   vvars, hvars>>

\* insert_event, lines 269-289: still under the lock, the cache is updated,
\* the aggregation caches are invalidated, _maybe_prune runs and True is
\* returned
InsertCache(t) ==
    /\ EStep(t, "insert_cache", "idle")
    /\ recent_cache' = appendleft(recent_cache, event[t])
    /\ velocity_cache_time' = invalidate(velocity_cache_time)
    /\ mismatch_cache_time' = invalidate(mismatch_cache_time)
    /\ events' \in maybe_prune(events)
    /\ buckets' = prune_buckets(buckets)
    /\ last_prune_time' = IF PruneDue THEN time ELSE last_prune_time
    /\ acked' = acked \cup {event[t].id}
    /\ event' = [event EXCEPT ![t] = None]
    /\ elock' = None
    /\ UNCHANGED <<last_id, got, insert_failed, velocity_cache, current_time,
                   velocity, mismatch_summary_cache, summary>>

\* the database inside the transaction of insert_event when a statement
\* raises sqlite3.Error: at the INSERT, at the bucket upsert, at the commit
Uncommitted(t) ==
    LET e == event[t]
        written == insert_row(e)
    IN  {[events |-> events, last_id |-> last_id, buckets |-> buckets],
         [events |-> written, last_id |-> last_id + 1, buckets |-> buckets],
         [events |-> written, last_id |-> last_id + 1,
          buckets |-> upsert_bucket(bucket_minute(e.timestamp))]}

\* the failed transaction's statements stay with the connection
rollbackMutant(db) == db

\* _transaction, lines 118-121: conn.rollback(), back to the database as it
\* was when the transaction began
rollback(db) == [events |-> events, last_id |-> last_id, buckets |-> buckets]

\* insert_event, lines 291-293: sqlite3.Error in the transaction; it is
\* rolled back, the exception is caught and False is returned
InsertFail(t) ==
    /\ EStep(t, "insert", "idle")
    /\ ELockFree(t)
    /\ \E db \in Uncommitted(t) :
          /\ events' = rollback(db).events
          /\ last_id' = rollback(db).last_id
          /\ buckets' = rollback(db).buckets
    /\ event' = [event EXCEPT ![t] = None]
    /\ insert_failed' = TRUE
    /\ UNCHANGED <<recent_cache, elock, last_prune_time, got, acked, vvars, hvars>>

\* get_recent_events(limit): from the cache without the lock when the cache
\* is long enough, else from the table under the lock
GetRecentEventsOf(t, limit) ==
    /\ EStep(t, "idle", "read")
    /\ limit <= Len(recent_cache) \/ ELockFree(t)
    /\ got' \in {[got EXCEPT ![t] = list] : list \in get_recent_events(limit)}
    /\ UNCHANGED <<events, last_id, buckets, recent_cache, elock,
                   last_prune_time, event, acked, insert_failed, vvars, hvars>>

GetRecentEvents(t) == \E limit \in 1..MaxLimit : GetRecentEventsOf(t, limit)

\* the caller is done with the list
ReadDone(t) ==
    /\ EStep(t, "read", "idle")
    /\ got' = [got EXCEPT ![t] = <<>>]
    /\ UNCHANGED <<events, last_id, buckets, recent_cache, elock,
                   last_prune_time, event, acked, insert_failed, vvars, hvars>>

\* the SELECT COUNT(*) of get_high_value_velocity, lines 391-400
high_value_count(at) ==
    Cardinality({i \in DOMAIN events :
                    /\ events[i].timestamp > at - VelocityWindowSeconds
                    /\ events[i].utility_score >= HighValueThreshold})

\* get_high_value_velocity, lines 382-385: current_time = time.time() and the
\* test of the cache's age, without the lock
VelocityCheck(t) ==
    /\ EStep(t, "idle", IF time - velocity_cache_time < VelocityCacheSeconds
                        THEN "velocity_cached" ELSE "velocity_query")
    /\ current_time' = [current_time EXCEPT ![t] = time]
    /\ UNCHANGED <<events, last_id, buckets, recent_cache, elock,
                   last_prune_time, event, got, acked, insert_failed,
                   velocity_cache, velocity_cache_time, velocity, hvars>>

\* line 386: return self._velocity_cache
VelocityCached(t) ==
    /\ EStep(t, "velocity_cached", "velocity_done")
    /\ velocity' = [velocity EXCEPT ![t] = <<velocity_cache>>]
    /\ UNCHANGED <<events, last_id, buckets, recent_cache, elock,
                   last_prune_time, event, got, acked, insert_failed,
                   velocity_cache, velocity_cache_time, current_time, hvars>>

\* lines 388-405: with self._lock, the count is taken, cached and returned
VelocityQuery(t) ==
    /\ EStep(t, "velocity_query", "velocity_done")
    /\ ELockFree(t)
    /\ velocity_cache' = high_value_count(current_time[t])
    /\ velocity_cache_time' = current_time[t]
    /\ velocity' = [velocity EXCEPT ![t] = <<high_value_count(current_time[t])>>]
    /\ UNCHANGED <<events, last_id, buckets, recent_cache, elock,
                   last_prune_time, event, got, acked, insert_failed,
                   current_time, hvars>>

\* the caller is done with the value
VelocityDone(t) ==
    /\ EStep(t, "velocity_done", "idle")
    /\ velocity' = [velocity EXCEPT ![t] = <<>>]
    /\ current_time' = [current_time EXCEPT ![t] = None]
    /\ UNCHANGED <<events, last_id, buckets, recent_cache, elock,
                   last_prune_time, event, got, acked, insert_failed,
                   velocity_cache, velocity_cache_time, hvars>>

\* get_mismatch_summary, lines 427-433: the rows the first SELECT returns,
\* WHERE mismatch_types != '' ORDER BY timestamp DESC LIMIT 100
WithMismatches(table) == SelectSeq(table, LAMBDA r : r.mismatch_types # <<>>)

\* lines 437-442: how often the rows of D name the kind
kind_count(table, D, kind) ==
    LET named == UNION {{<<i, j>> : j \in DOMAIN table[i].mismatch_types} :
                           i \in DOMAIN table}
    IN  Cardinality({n \in named : /\ table[n[1]].id \in D
                                   /\ table[n[1]].mismatch_types[n[2]] = kind})

\* lines 445-450: SELECT COUNT(*) ... WHERE is_surprise = 1 ORDER BY
\* timestamp DESC LIMIT 100; the LIMIT applies to the one row of the count
surprise_count(table) == Cardinality({i \in DOMAIN table : table[i].is_surprise})

\* lines 427-451: the summaries the queries can give
mismatch_summary(table) ==
    {[kind \in SummaryKinds |->
         IF kind = "surprise" THEN surprise_count(table)
         ELSE kind_count(table, D, kind)] :
        D \in Firsts(WithMismatches(table), SummaryLimit, TRUE)}

\* get_mismatch_summary, lines 418-421: current_time = time.time() and the
\* test of the cache's age, without the lock
SummaryCheck(t) ==
    /\ EStep(t, "idle", IF time - mismatch_cache_time < MismatchCacheSeconds
                        THEN "summary_cached" ELSE "summary_query")
    /\ current_time' = [current_time EXCEPT ![t] = time]
    /\ UNCHANGED <<events, last_id, buckets, recent_cache, elock,
                   last_prune_time, event, got, acked, insert_failed,
                   velocity_cache, velocity_cache_time, velocity, hvars>>

\* line 422: return self._mismatch_summary_cache
SummaryCached(t) ==
    /\ EStep(t, "summary_cached", "summary_done")
    /\ summary' = [summary EXCEPT ![t] = <<mismatch_summary_cache>>]
    /\ UNCHANGED <<events, last_id, buckets, recent_cache, elock,
                   last_prune_time, event, got, acked, insert_failed, vvars,
                   mismatch_summary_cache, mismatch_cache_time>>

\* lines 424-457: with self._lock, the counts are taken, cached and returned
SummaryQuery(t) ==
    /\ EStep(t, "summary_query", "summary_done")
    /\ ELockFree(t)
    /\ \E counts \in mismatch_summary(events) :
          /\ mismatch_summary_cache' = counts
          /\ summary' = [summary EXCEPT ![t] = <<counts>>]
    /\ mismatch_cache_time' = current_time[t]
    /\ UNCHANGED <<events, last_id, buckets, recent_cache, elock,
                   last_prune_time, event, got, acked, insert_failed, vvars>>

\* the caller is done with the summary
SummaryDone(t) ==
    /\ EStep(t, "summary_done", "idle")
    /\ summary' = [summary EXCEPT ![t] = <<>>]
    /\ current_time' = [current_time EXCEPT ![t] = None]
    /\ UNCHANGED <<events, last_id, buckets, recent_cache, elock,
                   last_prune_time, event, got, acked, insert_failed,
                   velocity_cache, velocity_cache_time, velocity,
                   mismatch_summary_cache, mismatch_cache_time>>

\* the threads of one process sharing one EventBuffer
InitEvents ==
    /\ QInit
    /\ pc = [t \in Workers |-> "idle"]
    /\ qinst = [t \in Workers |-> 1]
    /\ lock = [i \in {1} |-> None]

NextEvents ==
    \/ Tick
    \/ \E t \in Workers :
          \/ InsertBuild(t)
          \/ InsertCommit(t)
          \/ InsertCache(t)
          \/ InsertFail(t)
          \/ GetRecentEvents(t)
          \/ ReadDone(t)
          \/ VelocityCheck(t)
          \/ VelocityCached(t)
          \/ VelocityQuery(t)
          \/ VelocityDone(t)

SpecEvents == InitEvents /\ [][NextEvents]_vars

\* the threads that insert events and the dashboard's radar chart
NextSummary ==
    \/ Tick
    \/ \E t \in Workers :
          \/ InsertBuild(t)
          \/ InsertCommit(t)
          \/ InsertCache(t)
          \/ InsertFail(t)
          \/ SummaryCheck(t)
          \/ SummaryCached(t)
          \/ SummaryQuery(t)
          \/ SummaryDone(t)

SpecSummary == InitEvents /\ [][NextSummary]_vars

\* ---- the learner (src/inference/online_learner.py) in run_daemon --------
\* The River pipeline is a library.  Its state is kept as the sequence of the
\* targets it has learned and its prediction is the last of them, None on an
\* empty model; features are left out.  error_ema is a whole number of
\* 1/EmaScale, which is exact for the MaxLearns updates a model can take.
Targets == {4, 13}

RECURSIVE Pow10(_)
Pow10(n) == IF n = 0 THEN 1 ELSE 10 * Pow10(n - 1)

EmaScale == Pow10(MaxLearns)

Abs(x) == IF x < 0 THEN -x ELSE x

\* a checkpoint file that joblib.load cannot read
Corrupt == [kind |-> "corrupt"]
\* brain = None
NoLearner == [kind |-> "none"]
\* the constructor raised
Raised == [kind |-> "raised"]

predict_one(model) == IF model = <<>> THEN None ELSE model[Len(model)]

learn_one(model, y) == Append(model, y)

\* _init_fresh_model, lines 143-166
init_fresh_model(b) == [b EXCEPT !.model = <<>>]

\* _load_model without its except clause
load_modelMutant(b) ==
    IF checkpoint.kind = "state"
    THEN [b EXCEPT !.model = checkpoint.model,
                   !.samples_learned = checkpoint.samples_learned,
                   !.error_ema = checkpoint.error_ema]
    ELSE Raised

\* _load_model, lines 168-186
load_model(b) ==
    IF checkpoint.kind = "state"
    THEN [b EXCEPT !.model = checkpoint.model,
                   !.samples_learned = checkpoint.samples_learned,
                   !.error_ema = checkpoint.error_ema]
    ELSE init_fresh_model(b)

\* OnlineBrain.__init__, lines 130-139: the statistics are set after the
\* model has been loaded or built
init_stats(b) ==
    [b EXCEPT !.error_ema = 0, !.first_sample = TRUE, !.samples_learned = 0]

\* OnlineBrain.__init__, lines 86-141; os.path.exists(model_path) is false
\* only for a missing file
OnlineBrain(load_existing) ==
    LET b == [kind |-> "online", model |-> <<>>, samples_learned |-> 0,
              error_ema |-> 0, first_sample |-> TRUE]
        built == IF load_existing /\ checkpoint # Missing
                 THEN load_model(b)
                 ELSE init_fresh_model(b)
    IN  IF ~river \/ built = Raised THEN Raised ELSE init_stats(built)

\* FallbackBrain.__init__, lines 450-454
FallbackBrain == [kind |-> "fallback", sum |-> 0, count |-> 0,
                  samples_learned |-> 0]

\* create_brain, lines 483-492
create_brain(load_existing) ==
    IF river THEN OnlineBrain(load_existing) ELSE FallbackBrain

\* OnlineBrain.save, lines 202-209: the state written to the file
saved_state(b) ==
    [kind |-> "state", model |-> b.model, samples_learned |-> b.samples_learned,
     error_ema |-> b.error_ema]

\* the RLock taken by any caller
LLockFreeMutant(t) == TRUE

LLockFree(t) == llock \in {None, t}

\* learn, lines 284-291: the EMA after this call's error
ema_update(b, error) ==
    IF b.first_sample
    THEN error * EmaScale
    ELSE (ErrorEmaAlpha * error * EmaScale + (10 - ErrorEmaAlpha) * b.error_ema)
            \div 10

\* learn, line 294, on the EMA as it stands at that line
is_surprise(error, ema) ==
    IF ema > 0 THEN error * EmaScale > SurpriseMultiplier * ema ELSE FALSE

LStep(t, at, to) ==
    /\ pc[t] = at
    /\ pc' = [pc EXCEPT ![t] = to]
    /\ UNCHANGED <<jobs, clock, lock, qinst, sel, job, returned, wvars, projects,
                   archive, evars, mvars, river, boots>>

\* run_daemon, lines 114-144: DaemonState() and the brain
Boot(t) ==
    /\ pc[t] = "boot"
    /\ boots < MaxBoots
    /\ pc' = [pc EXCEPT ![t] = "idle"]
    /\ boots' = boots + 1
    /\ processed' = 0
    /\ brain' = IF river
                THEN LET b == create_brain(TRUE)
                     IN  IF b = Raised THEN NoLearner ELSE b
                ELSE NoLearner
    /\ UNCHANGED <<jobs, clock, lock, qinst, sel, job, returned, wvars, projects,
                   archive, evars, mvars, river, checkpoint, llock, target,
                   prediction, result>>

\* OnlineBrain.predict, lines 231-237
Predict(t) ==
    /\ LStep(t, "idle", "predicted")
    /\ brain.kind = "online"
    /\ LLockFree(t)
    /\ result' = [result EXCEPT ![t] = <<predict_one(brain.model)>>]
    /\ UNCHANGED <<brain, checkpoint, llock, target, prediction, processed>>

\* a caller of predict alone is done
PredictDone(t) ==
    /\ LStep(t, "predicted", "idle")
    /\ result' = [result EXCEPT ![t] = <<>>]
    /\ UNCHANGED <<brain, checkpoint, llock, target, prediction, processed>>

\* OnlineBrain.learn, lines 260-270: the lock is taken and the model predicts
LearnPredict(t) ==
    /\ LStep(t, "predicted", "learn")
    /\ brain.kind = "online"
    /\ Len(brain.model) < MaxLearns
    /\ LLockFree(t)
    /\ llock' = t
    /\ \E y \in Targets : target' = [target EXCEPT ![t] = y]
    /\ prediction' = [prediction EXCEPT ![t] = predict_one(brain.model)]
    /\ result' = [result EXCEPT ![t] = <<>>]
    /\ UNCHANGED <<brain, checkpoint, processed>>

\* OnlineBrain.learn, lines 272-337: the model learns, the error, the EMA and
\* the surprise flag are computed and returned and the lock is released;
\* run_daemon, line 306, counts the sample
LearnUpdate(t) ==
    /\ LStep(t, "learn", "learned")
    /\ LET error == Abs(target[t] - prediction[t])
           ema == ema_update(brain, error)
       IN  /\ brain' = [brain EXCEPT !.model = learn_one(brain.model, target[t]),
                                     !.error_ema = ema,
                                     !.first_sample = FALSE,
                                     !.samples_learned = brain.samples_learned + 1]
           /\ result' = [result EXCEPT ![t] =
                            <<prediction[t], error, is_surprise(error, ema)>>]
    /\ llock' = None
    /\ processed' = processed + 1
    /\ UNCHANGED <<checkpoint, target, prediction>>

\* the caller is done with the result
LearnDone(t) ==
    /\ LStep(t, "learned", "idle")
    /\ result' = [result EXCEPT ![t] = <<>>]
    /\ target' = [target EXCEPT ![t] = None]
    /\ prediction' = [prediction EXCEPT ![t] = None]
    /\ UNCHANGED <<brain, checkpoint, llock, processed>>

\* run_daemon, lines 246-270 with brain = None: prediction 0.0, error 0.0,
\* is_surprise False; the sample is counted (line 306)
SampleNoBrain(t) ==
    /\ LStep(t, "idle", "learned")
    /\ brain = NoLearner
    /\ processed < MaxLearns
    /\ processed' = processed + 1
    /\ \E y \in Targets : target' = [target EXCEPT ![t] = y]
    /\ result' = [result EXCEPT ![t] = <<0, 0, FALSE>>]
    /\ UNCHANGED <<brain, checkpoint, llock, prediction>>

\* run_daemon, lines 286-299, and TrainingLogger.log_sample, lines 104-166:
\* ml_metadata carries the error and is_surprise of learn; insert_event is
\* called with quantum_data (the enriched sample, which has no is_surprise
\* key), the score and ml_error, and builds its event.  Mismatches are left
\* to the mismatch detector's model.
log_sample(actual_utility, learned) ==
    [score |-> actual_utility, ml_error |-> learned[2], is_surprise |-> FALSE,
     mismatches |-> <<>>]

LogSample(t) ==
    /\ pc[t] = "learned"
    /\ pc' = [pc EXCEPT ![t] = "insert"]
    /\ event' = [event EXCEPT ![t] =
                    Row(None, time, log_sample(target[t], result[t]))]
    /\ UNCHANGED <<jobs, clock, lock, qinst, sel, job, returned, wvars, projects,
                   archive, lvars, mvars, events, last_id, buckets,
                   recent_cache, elock, last_prune_time, got, acked,
                   insert_failed, vvars, hvars>>

\* run_daemon, lines 339-341: OnlineBrain.save under the lock
Save(t) ==
    /\ LStep(t, "idle", "idle")
    /\ brain.kind = "online"
    /\ LLockFree(t)
    /\ checkpoint' = saved_state(brain)
    /\ UNCHANGED <<brain, llock, target, prediction, result, processed>>

\* the process ends and will be started again; every thread ends with it.
\* The next process constructs its EventBuffer on the same database
\* (event_buffer.py, lines 73-86): the tables stay, the object's fields are
\* new
Ended ==
    /\ pc' = [c \in Workers |-> IF c = MainWorker THEN "boot" ELSE "idle"]
    /\ brain' = NoBrain
    /\ llock' = None
    /\ target' = [c \in Workers |-> None]
    /\ prediction' = [c \in Workers |-> None]
    /\ result' = [c \in Workers |-> <<>>]
    /\ recent_cache' = <<>>
    /\ elock' = None
    /\ last_prune_time' = 0
    /\ event' = [c \in Workers |-> None]
    /\ velocity_cache' = 0
    /\ velocity_cache_time' = 0
    /\ mismatch_summary_cache' = NoSummary
    /\ mismatch_cache_time' = 0
    /\ UNCHANGED <<jobs, clock, lock, qinst, sel, job, returned, wvars, projects,
                   archive, events, last_id, buckets, got, acked, insert_failed,
                   current_time, velocity, summary, mvars, river, processed,
                   boots>>

\* run_daemon, lines 354-359: shutdown, the brain is saved in the finally
Exit(t) ==
    /\ pc[t] = "idle"
    /\ brain # NoBrain
    /\ LLockFree(t)
    /\ checkpoint' = IF brain.kind = "online" THEN saved_state(brain)
                     ELSE checkpoint
    /\ Ended

\* the process is killed
Kill(t) ==
    /\ pc[t] # "boot"
    /\ checkpoint' = checkpoint
    /\ Ended

\* the process is killed inside OnlineBrain.save, lines 211-212, after
\* open(save_path, "wb") has truncated the file
KillInSave(t) ==
    /\ pc[t] = "idle"
    /\ brain.kind = "online"
    /\ LLockFree(t)
    /\ checkpoint' = Corrupt
    /\ Ended

\* the daemon's main thread and the other callers of its brain
InitLearner ==
    /\ QInitRows
    /\ river \in BOOLEAN
    /\ projects = [p \in Projects |-> Project("created", 0, NULL)]
    /\ pc = [c \in Workers |-> IF c = MainWorker THEN "boot" ELSE "idle"]
    /\ qinst = [c \in Workers |-> 1]
    /\ lock = [i \in {1} |-> None]

NextLearner ==
    \/ Boot(MainWorker)
    \/ SampleNoBrain(MainWorker)
    \/ Save(MainWorker)
    \/ KillInSave(MainWorker)
    \/ Exit(MainWorker)
    \/ Kill(MainWorker)
    \/ \E t \in Workers :
          \/ Predict(t)
          \/ PredictDone(t)
          \/ LearnPredict(t)
          \/ LearnUpdate(t)
          \/ LearnDone(t)

SpecLearner == InitLearner /\ [][NextLearner]_vars

\* run_daemon's loop alone, lines 228-310: predict, learn, log_sample into
\* the Event Store, for every sample in turn
NextPipeline ==
    \/ Boot(MainWorker)
    \/ Predict(MainWorker)
    \/ LearnPredict(MainWorker)
    \/ LearnUpdate(MainWorker)
    \/ SampleNoBrain(MainWorker)
    \/ LogSample(MainWorker)
    \/ InsertCommit(MainWorker)
    \/ InsertFail(MainWorker)
    \/ InsertCache(MainWorker)
    \/ Save(MainWorker)
    \/ Exit(MainWorker)
    \/ Kill(MainWorker)

SpecPipeline == InitLearner /\ [][NextPipeline]_vars

\* ---- the mismatch detector (src/inference/mismatch_detector.py) ----------
\* A sample is what the GIS loader, the predictor and the analyzer return for
\* its position.  Strings are tuples of characters; severities are whole
\* numbers of 1/SeverityScale.
SeverityScale == 60
ZoningSeverity == 42
FloodSeverity == 36

ZoningCodes ==
    {<<"M", "-", "1">>, <<"C", "-", "2">>, <<"R", "-", "1", "-", "5">>,
     <<"A", "-", "1">>, <<"U", "n", "k", "n", "o", "w", "n">>}
Slopes == {0, 26, 30, 31, 50}
Elevations == {20, 100}
FloodScores == {2, 5}
UtilityDistances == {100, 2000}
MLScores == {20, 45, 50, 90}
RuleScore == 20

Quanta ==
    [current_zoning : ZoningCodes, slope_percent : Slopes,
     elevation_ft : Elevations, flood_risk_score : FloodScores,
     distance_to_water_main_ft : UtilityDistances,
     distance_to_sewer_ft : UtilityDistances,
     has_predictor : BOOLEAN, ml_score : MLScores]

\* Python's  sub in s
Contains(sub, str) ==
    \E i \in 1..(Len(str) - Len(sub) + 1) :
        SubSeq(str, i, i + Len(sub) - 1) = sub

Min(a, b) == IF a < b THEN a ELSE b

Mismatch(mismatch_type, severity) ==
    [mismatch_type |-> mismatch_type, severity |-> severity]

\* return None
NoMismatch == Mismatch("None", 0)

\* one threshold for every zoning
detect_slope_mismatchMutant(q) ==
    LET slope == q.slope_percent
        zoning_code == q.current_zoning
        is_commercial_industrial ==
            Contains(<<"M", "-">>, zoning_code) \/ Contains(<<"C", "-">>, zoning_code)
        is_residential == Contains(<<"R", "-">>, zoning_code)
    IN  IF (is_commercial_industrial \/ is_residential)
            /\ slope > SlopeDifficultMin
        THEN Mismatch("slope",
                 Min(SeverityScale,
                     ((slope - SlopeDifficultMin) * SeverityScale) \div 20))
        ELSE NoMismatch

\* detect_slope_mismatch, lines 62-113
detect_slope_mismatch(q) ==
    LET slope == q.slope_percent
        zoning_code == q.current_zoning
        is_commercial_industrial ==
            Contains(<<"M", "-">>, zoning_code) \/ Contains(<<"C", "-">>, zoning_code)
        is_residential == Contains(<<"R", "-">>, zoning_code)
    IN  IF is_commercial_industrial /\ slope > SlopeDifficultMin
        THEN Mismatch("slope",
                 Min(SeverityScale,
                     ((slope - SlopeDifficultMin) * SeverityScale) \div 20))
        ELSE IF is_residential /\ slope > SlopeResidentialMin
        THEN Mismatch("slope",
                 Min(SeverityScale,
                     ((slope - SlopeResidentialMin) * SeverityScale) \div 15))
        ELSE NoMismatch

\* detect_zoning_opportunity, lines 115-152
detect_zoning_opportunity(q) ==
    LET is_flat == q.slope_percent < SlopeBuildableMax
        has_utilities == /\ q.distance_to_water_main_ft < UtilityNearFt
                         /\ q.distance_to_sewer_ft < UtilityNearFt
        is_restricted == Contains(<<"A", "-">>, q.current_zoning)
    IN  IF is_flat /\ has_utilities /\ is_restricted
        THEN Mismatch("zoning", ZoningSeverity)
        ELSE NoMismatch

\* detect_utility_mismatch, lines 154-187
detect_utility_mismatch(q) ==
    IF ~q.has_predictor THEN NoMismatch
    ELSE LET diff == IF q.ml_score < RuleScore THEN RuleScore - q.ml_score
                     ELSE q.ml_score - RuleScore
         IN  IF diff > UtilityMismatchThreshold
             THEN Mismatch("utility",
                      Min(SeverityScale, (diff * SeverityScale) \div 50))
             ELSE NoMismatch

\* detect_flood_terrain_mismatch, lines 189-219
detect_flood_terrain_mismatch(q) ==
    IF q.elevation_ft < LowElevationFt /\ q.flood_risk_score < LowFloodScore
    THEN Mismatch("flood", FloodSeverity)
    ELSE NoMismatch

\* scan_quantum, lines 234-239: detectors
NumDetectors == 4

Detect(i, q) ==
    CASE i = 1 -> detect_slope_mismatch(q)
      [] i = 2 -> detect_zoning_opportunity(q)
      [] i = 3 -> detect_utility_mismatch(q)
      [] i = 4 -> detect_flood_terrain_mismatch(q)

\* the except clause around the whole loop: a raise ends the scan
after_raiseMutant(i) == NumDetectors + 1

\* scan_quantum, lines 241-247: the except clause is inside the loop, which
\* goes on with the next detector
after_raise(i) == i + 1

MStep ==
    UNCHANGED <<jobs, clock, lock, qinst, pc, sel, job, returned, wvars,
                projects, archive, evars, lvars>>

\* scan_quantum, lines 228-231
ScanQuantum ==
    /\ detector = 0
    /\ \E q \in Quanta : quantum' = q
    /\ \E f \in SUBSET (1..NumDetectors) : raising' = f
    /\ detector' = 1
    /\ mismatches' = <<>>
    /\ MStep

\* scan_quantum, lines 241-247: one turn of the loop
RunDetector ==
    /\ detector \in 1..NumDetectors
    /\ IF detector \in raising
       THEN /\ detector' = after_raise(detector)
            /\ mismatches' = mismatches
       ELSE /\ detector' = detector + 1
            /\ mismatches' = IF Detect(detector, quantum) # NoMismatch
                             THEN Append(mismatches, Detect(detector, quantum))
                             ELSE mismatches
    /\ UNCHANGED <<quantum, raising>>
    /\ MStep

\* the caller is done with the list that line 249 returned
ScanDone ==
    /\ detector = NumDetectors + 1
    /\ detector' = 0
    /\ quantum' = None
    /\ raising' = {}
    /\ mismatches' = <<>>
    /\ MStep

NextMismatch == ScanQuantum \/ RunDetector \/ ScanDone

SpecMismatch == Init /\ [][NextMismatch]_vars

\* the counters of points collected (the worker's own and the persisted one)
\* lie between 0 and max_total_points and every progress percent in the queue
\* lies in 0..100
BudgetKept ==
    /\ \A p \in DOMAIN projects :
          projects[p] # Torn
              => projects[p].points_collected \in 0..projects[p].max_total_points
    /\ \A w \in Workers :
          Scanning(w)
              => /\ points[w] \in 0..project[w].max_total_points
                 /\ project[w].points_collected \in 0..project[w].max_total_points
    /\ \A j \in JobIds : jobs[j].progress_percent \in 0..100

\* C40: for a project with a positive point budget, in every state the
\* worker's scan reaches 0 <= points_collected <= max_total_points holds and
\* every progress percent written to the queue lies in 0..100, and no step
\* lowers the progress percent of a job.
C40_CounterAndProgressBounded ==
    /\ []BudgetKept
    /\ [][\A j \in JobIds :
             jobs'[j].progress_percent >= jobs[j].progress_percent]_vars

\* the progress of the third cycle of a run has been written
C40_Witness ==
    \E j \in JobIds :
        /\ jobs[j].progress_percent \in 1..99
        /\ \E n \in (2 * PointsPerScanCycle)..LargeBudget :
              jobs[j].progress_message = <<"Scanned", n, LargeBudget>>

\* C39: in every reachable state of the queue a pending job has worker_id
\* NULL, and a running job has a worker_id and a started_at that are not
\* NULL.
C39_OwnerMatchesStatus ==
    \A j \in JobIds :
        /\ jobs[j].status = PENDING => jobs[j].worker_id = None
        /\ jobs[j].status = RUNNING
              => jobs[j].worker_id # None /\ jobs[j].started_at # None

\* a job that was claimed is pending again, next to a job that is running
C39_Witness ==
    \E i, j \in JobIds :
        /\ jobs[i].status = PENDING
        /\ jobs[i].started_at # None
        /\ jobs[j].status = RUNNING

\* ---- the dashboard's buttons and the workers -------------------------------
\* C34: once a job has been paused or cancelled through the queue, as the
\* dashboard's Pause and Cancel buttons do while a worker is scanning it, no
\* later write changes that status: the worker does not mark it completed
\* (or failed).
C34_PausedOrCancelledStays ==
    [][\A w \in Workers :
          (/\ Scanning(w) \/ pc[w] \in {"after_scan", "complete", "except"}
           /\ jobs[job[w]].status \in {PAUSED, CANCELLED}
           /\ pc'[w] # pc[w])
              => jobs'[job[w]].status = jobs[job[w]].status]_vars

\* C37: no two jobs of one project are in status running at the same time,
\* and no two workers are scanning one project at the same time (so that
\* its points_collected is advanced by one worker at a time).
C37_OneRunningJobPerProject ==
    /\ \A i, j \in JobIds :
          (i # j /\ jobs[i].status = RUNNING /\ jobs[j].status = RUNNING)
              => jobs[i].project_id # jobs[j].project_id
    /\ \A v, w \in Workers :
          (v # w /\ Scanning(v) /\ Scanning(w)) => ProjectOf(v) # ProjectOf(w)

\* ---- liveness ------------------------------------------------------------
JobSlots == 1..MaxJobs

Waiting(j) == j \in JobIds /\ jobs[j].status = PENDING /\ returned[j] = 0

\* another pending job comes before j, or level with j, in the claim order
Outranked(j) ==
    \E k \in JobIds \ {j} :
        /\ jobs[k].status = PENDING
        /\ \/ jobs[k].priority > jobs[j].priority
           \/ /\ jobs[k].priority = jobs[j].priority
              /\ jobs[k].created_at <= jobs[j].created_at

Lost(j) ==
    /\ j \in JobIds
    /\ jobs[j].status = RUNNING
    /\ pc[MainWorker] = "loop"

ResetRow(j) ==
    [jobs[j] EXCEPT !.status = PENDING, !.worker_id = None,
                    !.progress_message = <<"Reset after timeout">>]

C13_PauseResumeReclaim ==
    [][\A c \in Workers, j \in JobIds :
          /\ (QWrite(c, pause(j)) /\ jobs[j].status = RUNNING)
                => jobs'[j].status = PAUSED
          /\ (QWrite(c, resume(j)) /\ jobs[j].status = PAUSED)
                => /\ jobs'[j].status = PENDING
                   /\ jobs'[j].worker_id = None
          /\ (QClaimUpdate(c) /\ sel[c] = j)
                => /\ jobs'[j].status = RUNNING
                   /\ jobs'[j].worker_id = c]_vars

\* a job that was paused and resumed is pending without a worker_id and a
\* caller's claim_next has selected it
C13_Witness ==
    \E c \in Workers, j \in JobIds :
        /\ pc[c] = "claim_update" /\ sel[c] = j
        /\ jobs[j].status = PENDING /\ jobs[j].worker_id = None
        /\ jobs[j].progress_message = <<"Paused">>
        /\ jobs[j].started_at # None

\* ---- end to end -------------------------------------------------------------
\* _process_job has returned for the only job ever enqueued, its project
\* exists and no exception was raised
RanToCompletion(w) ==
    /\ pc[w] = "clear"
    /\ project[w].max_total_points = MaxTotalPoints
    /\ JobIds = {1} /\ job[w] = 1
    /\ ProjectOf(w) \in DOMAIN projects
    /\ exc[w] = NULL

C17_PointExceptionCaught ==
    [][\A w \in Workers :
          (pc[w] = "cycle" /\ exc'[w] # exc[w]) => pc'[w] # "except"]_vars

\* C18: with max_total_points = -1 the job is not marked completed while no
\* shutdown was requested and no error occurred.
C18_UnlimitedNotCompleted ==
    \A j \in JobIds :
        (/\ jobs[j].project_id \in DOMAIN projects
         /\ projects[jobs[j].project_id].max_total_points = UnlimitedPoints
         /\ \A w \in Workers : ~shutdown_requested[w])
            => jobs[j].status # COMPLETED

\* C15: after a job with budget B has run to completion the Event Store
\* holds B events and the archive holds B lines: one event and one line for
\* every point the worker scanned.
C15_EveryPointInStoreAndArchive ==
    \A w \in Workers :
        RanToCompletion(w) =>
            /\ archive[ProjectOf(w)] = MaxTotalPoints
            /\ Len(events) = MaxTotalPoints

\* C16: progress survives a crash mid-job: the counter saved at the end of a
\* scan cycle can be read back, the scan of a job claimed again starts each
\* cycle from the saved counter, and a completed job leaves points_collected
\* at the budget.
C16_ProgressSurvivesCrash ==
    \A j \in JobIds :
        jobs[j].project_id \in DOMAIN projects =>
            /\ projects[jobs[j].project_id] # Torn
            /\ \A w \in Workers :
                  (job[w] = j /\ pc[w] = "scan")
                      => points[w] = projects[jobs[j].project_id].points_collected
            /\ jobs[j].status = COMPLETED
                  => projects[jobs[j].project_id].points_collected = MaxTotalPoints

\* C38: at every cycle boundary of a job (the worker is at the head of the
\* scan loop with the project loaded), also after a crash in the middle of a
\* cycle and a new claim, the project's archive file has as many lines as
\* the project's persisted points_collected. The job is the only one of its
\* project, so every line of the archive is one it has appended.
C38_ArchiveMatchesCounter ==
    \A w \in Workers :
        (/\ pc[w] = "scan"
         /\ \A i \in JobIds : jobs[i].project_id = ProjectOf(w) => i = job[w]
         /\ ProjectOf(w) \in DOMAIN projects
         /\ projects[ProjectOf(w)] # Torn)
            => archive[ProjectOf(w)] = projects[ProjectOf(w)].points_collected

\* ---- the Event Store ----------------------------------------------------------
\* C19: with no insert in progress and no prune due so far, the table holds
\* exactly one row for every insert_event call that returned True (K threads
\* with M such calls each leave K*M rows): none lost, none duplicated.
C19_NoInsertLost ==
    (/\ \A t \in Workers : pc[t] \notin {"insert", "insert_cache"}
     /\ last_id <= MaxEvents + PruneBatchSize)
        => /\ Len(events) = Cardinality(acked)
           /\ RowIds(events) = acked

\* as many inserts as the table holds without a prune have returned True
C19_Witness ==
    /\ \A t \in Workers : pc[t] = "idle"
    /\ Cardinality(acked) = MaxEvents + PruneBatchSize
    /\ Len(events) = Cardinality(acked)

\* the rows other than e that are at least as new as e
NotOlder(e) ==
    {i \in DOMAIN events :
        events[i].id # e /\ \A k \in DOMAIN events :
            events[k].id = e => events[i].timestamp >= events[k].timestamp}

InList(e, list) == \E i \in DOMAIN list : list[i].id = e

\* C20: get_recent_events(n) called after an insert_event returned True
\* returns a list containing that event unless at least n other events that
\* are as new or newer exist (an event of equal timestamp counts as newer).
C20_ReadObservesInsert ==
    [][\A t \in Workers, n \in 1..MaxLimit :
          GetRecentEventsOf(t, n) =>
              \A e \in acked \cap RowIds(events) :
                  \/ InList(e, got'[t])
                  \/ Cardinality(NotOlder(e)) >= n]_vars

\* the rows of the table before the step that the step deleted
Deleted == {i \in DOMAIN events : events[i].id \notin RowIds(events')}

\* C21: once more than MAX_EVENTS events have been inserted, an insert whose
\* prune check is not throttled leaves at most MAX_EVENTS + PRUNE_BATCH_SIZE
\* rows; when it deletes, exactly MAX_EVENTS rows remain and no deleted row
\* is newer than a row that remains.
C21_PruneKeepsNewest ==
    [][\A t \in Workers :
          (InsertCache(t) /\ PruneDue /\ last_id > MaxEvents) =>
              /\ Len(events') <= MaxEvents + PruneBatchSize
              /\ Deleted # {} =>
                    /\ Len(events') = MaxEvents
                    /\ \A i \in Deleted, k \in DOMAIN events' :
                          events[i].timestamp <= events'[k].timestamp]_vars

\* a prune has deleted: every insert returned True, MAX_EVENTS rows are left
C21_Witness ==
    /\ \A t \in Workers : pc[t] = "idle"
    /\ Cardinality(acked) > MaxEvents + PruneBatchSize
    /\ Len(events) = MaxEvents

\* C22: an insert_event whose SQLite write fails returns False (nothing is
\* acknowledged, the caller goes on) and leaves the stored events, the
\* temporal buckets and the recent cache as they were.
C22_FailedInsertChangesNothing ==
    [][\A t \in Workers :
          InsertFail(t) =>
              /\ pc'[t] = "idle" /\ acked' = acked
              /\ events' = events
              /\ buckets' = buckets
              /\ recent_cache' = recent_cache]_vars

\* an insert has failed after others had succeeded
C22_Witness ==
    /\ insert_failed
    /\ events # <<>>
    /\ \A t \in Workers : pc[t] = "idle"

\* the stored events of the inserts that have returned
Completed == {i \in DOMAIN events : events[i].id \in acked}

SummaryOver(table, D) ==
    [kind \in SummaryKinds |->
        IF kind = "surprise"
        THEN Cardinality({i \in DOMAIN table :
                             table[i].id \in D /\ table[i].is_surprise})
        ELSE kind_count(table, D, kind)]

\* C31: every count get_mismatch_summary computes (slope, zoning, flood,
\* utility, surprise) is the count over the SummaryLimit (100) most recent
\* stored events; an older event contributes to none.
C31_SummaryOverMostRecent ==
    [][\A t \in Workers :
          (pc[t] = "summary_query" /\ pc'[t] = "summary_done") =>
              \E D \in Firsts(events, SummaryLimit, TRUE) :
                  summary'[t] = <<SummaryOver(events, D)>>]_vars

\* the step ran a prune check: it set _last_prune_time, or deleted events or
\* buckets
PruneChecked ==
    \/ last_prune_time' # last_prune_time
    \/ Len(events') < Len(events)
    \/ DOMAIN buckets \ DOMAIN buckets' # {}

\* C32: over any sequence of insert_event calls a prune check (the count
\* query and the possible deletion) runs only when at least PruneInterval
\* (10) seconds have passed since the previous one, whose time it then
\* replaces by the present: at most one check per 10 seconds, not one per
\* insert.
C32_PruneCheckThrottled ==
    [][PruneChecked => /\ time - last_prune_time >= PruneInterval
                       /\ last_prune_time' = time]_vars

\* two inserts have returned True at the instant of the last prune check:
\* one of them ran no check
C32_Witness ==
    /\ last_prune_time = time
    /\ \E i, j \in DOMAIN events :
          /\ i # j
          /\ {events[i].id, events[j].id} \subseteq acked
          /\ events[i].timestamp = time
          /\ events[j].timestamp = time

\* C33: a prune check expires the per-minute buckets older than the
\* retention window (BucketKeepSeconds, 60 minutes) whether or not it evicts
\* events: after a check no bucket is older than the window.
C33_BucketsExpireSeparately ==
    [][last_prune_time' # last_prune_time =>
          \A b \in DOMAIN buckets' :
              b >= (time - BucketKeepSeconds) \div BucketSeconds]_vars

\* the list is one the persisted query ORDER BY timestamp DESC LIMIT n can
\* return: n newest rows of the table, newest first
PersistedAnswer(list, n) ==
    /\ {list[i].id : i \in DOMAIN list} \in Firsts(events, n, TRUE)
    /\ Len(list) = Cardinality({list[i].id : i \in DOMAIN list})
    /\ \A i, j \in DOMAIN list :
          i < j => list[i].timestamp >= list[j].timestamp

\* C36: for n not larger than the cache, get_recent_events(n), called while
\* no insert_event holds the lock, returns a list the persisted query
\* (ORDER BY timestamp DESC LIMIT n) can return: the same events, newest
\* first, whatever the interleaving of the inserts before it.
C36_CacheMatchesPersistedQuery ==
    [][\A t \in Workers, n \in 1..MaxLimit :
          (GetRecentEventsOf(t, n) /\ n <= Len(recent_cache) /\ elock = None)
              => PersistedAnswer(got'[t], n)]_vars

\* ---- the learner ------------------------------------------------------------
\* C23: whatever the interleaving of learn and predict callers, the
\* prior_prediction a learn call returns is the model's prediction in the
\* state its own update is applied to (no other update came in between), and
\* the error it returns is |target - prior_prediction|.
C23_PredictBeforeUpdate ==
    [][\A t \in Workers :
          LearnUpdate(t) =>
              /\ result'[t][1] = predict_one(brain.model)
              /\ result'[t][2] = Abs(target[t] - result'[t][1])
              /\ brain'.model = learn_one(brain.model, target[t])]_vars

\* a learn call has returned the prediction of a model that had learned
\* before, while another caller is between its predict and its learn
C23_Witness ==
    \E t, u \in Workers :
        /\ pc[t] = "learned"
        /\ result[t][1] # None
        /\ pc[u] = "predicted"
        /\ result[u] # <<None>>

\* C24: from the second learn call on, is_surprise is true exactly when the
\* call's error exceeds 2 times the error EMA as it stood before the call,
\* and the EMA becomes 0.1*error + 0.9*ema (the first call sets it to its
\* error).
C24_SurpriseOnPreCallEma ==
    [][\A t \in Workers :
          LearnUpdate(t) =>
              /\ brain'.error_ema * 10 =
                    IF brain.first_sample THEN result'[t][2] * EmaScale * 10
                    ELSE result'[t][2] * EmaScale + 9 * brain.error_ema
              /\ ~brain.first_sample =>
                    (result'[t][3] <=>
                        result'[t][2] * EmaScale > 2 * brain.error_ema)]_vars

\* C25: a learner constructed with load_existing = True on a saved checkpoint
\* has the sample count and the error EMA of the checkpoint.
C25_CheckpointRoundTrip ==
    [][(Boot(MainWorker) /\ river /\ checkpoint.kind = "state") =>
          /\ brain'.kind = "online"
          /\ brain'.samples_learned = checkpoint.samples_learned
          /\ brain'.error_ema = checkpoint.error_ema]_vars

\* C26: constructing the learner when the checkpoint is missing or corrupt
\* raises nothing and gives a fresh model with zero samples learned.
C26_FreshOnBadCheckpoint ==
    [][(Boot(MainWorker) /\ river /\ checkpoint \in {Missing, Corrupt}) =>
          /\ brain'.kind = "online"
          /\ brain'.model = <<>>
          /\ brain'.samples_learned = 0]_vars

\* the process was killed while it was saving; the next one has constructed
\* a fresh model from the file it left
C26_Witness ==
    /\ checkpoint = Corrupt
    /\ brain.kind = "online"
    /\ brain.model = <<>>
    /\ boots > 1

\* C27: with the backend unavailable the daemon runs with the running-mean
\* fallback learner: every sample it has processed was passed to the
\* learner's learn.
C27_DegradedUsesFallback ==
    (~river /\ brain # NoBrain) =>
        /\ brain.kind = "fallback"
        /\ brain.samples_learned = processed

\* C35: the is_surprise flag of the event the daemon stores for a sample is
\* the is_surprise that learn returned for that sample (False without a
\* learner).
C35_StoredSurpriseIsLearned ==
    [][\A t \in Workers :
          (pc[t] = "insert" /\ pc'[t] = "insert_cache" /\ Len(result[t]) = 3)
              => \E i \in DOMAIN events' :
                     /\ events'[i].id = last_id'
                     /\ events'[i].is_surprise = result[t][3]]_vars

\* ---- the mismatch detector ---------------------------------------------------
Industrial == {<<"M", "-", "1">>, <<"C", "-", "2">>}
Residential == {<<"R", "-", "1", "-", "5">>}

Scanned == detector = NumDetectors + 1 /\ raising = {}

OfKind(kind) ==
    {i \in DOMAIN mismatches : mismatches[i].mismatch_type = kind}

Flat == quantum.slope_percent < SlopeBuildableMax

\* the slope rule: a scan without failing checks holds a slope mismatch
\* exactly when the zoning is industrial/commercial and the slope is over 25%
\* or the zoning is residential and the slope is over 30%; its severity is
\* min(1, (slope-25)/20), respectively min(1, (slope-30)/15), and lies in
\* (0,1]; industrial zoning at 30% slope gives exactly one slope mismatch
SlopeRule ==
    Scanned =>
        LET slope == quantum.slope_percent
            zoning == quantum.current_zoning
        IN  /\ OfKind("slope") # {} <=>
                  \/ zoning \in Industrial /\ slope > 25
                  \/ zoning \in Residential /\ slope > 30
            /\ \A i \in OfKind("slope") :
                  /\ mismatches[i].severity * 20 * 15 =
                        IF zoning \in Industrial
                        THEN Min(20 * 15, (slope - 25) * 15) * SeverityScale
                        ELSE Min(20 * 15, (slope - 30) * 20) * SeverityScale
                  /\ mismatches[i].severity > 0
                  /\ mismatches[i].severity <= SeverityScale
            /\ (zoning \in Industrial /\ slope = 30) =>
                  Cardinality(OfKind("slope")) = 1

RECURSIVE ResultsFrom(_)
ResultsFrom(i) ==
    IF i > NumDetectors THEN <<>>
    ELSE (IF i \notin raising /\ Detect(i, quantum) # NoMismatch
          THEN <<Detect(i, quantum)>> ELSE <<>>) \o ResultsFrom(i + 1)

\* C29: scan_quantum returns exactly the results of the checks that do not
\* raise and find a mismatch, in the checks' order, at most one of each
\* check; a check that raises adds nothing and the later checks still run.
C29_ScanIsolatesFailures ==
    detector = NumDetectors + 1 =>
        /\ mismatches = ResultsFrom(1)
        /\ \A kind \in {"slope", "zoning", "utility", "flood"} :
              Cardinality(OfKind(kind)) <= 1

\* the first check raised and a later one found a mismatch
C29_Witness ==
    /\ detector = NumDetectors + 1
    /\ 1 \in raising
    /\ OfKind("flood") # {}

====
